---- MODULE Spec2Model ----
(***************************************************************************)
(* A model of src/bot.py: the chat bot that downloads a playlist's         *)
(* segments (or one direct file), merges them with ffmpeg, checks the      *)
(* result against the upload limit and uploads it.                         *)
(*                                                                         *)
(* Strings are sequences of tokens.  A token is a literal the program      *)
(* looks for (".m3u8", "http", "/", "#", ...) or an ordinary run of        *)
(* characters ("a", "seg0", ...); " " and "\n" are the whitespace tokens.  *)
(***************************************************************************)
EXTENDS Integers, Sequences, FiniteSets, TLC

VARIABLES
    pc,         \* per request: the await the handler is suspended at
    draft,      \* per request: the words of the message being written
    text,       \* per request: message.text (None when there is none)
    url,        \* per request: the url selected at line 110
    workdir,    \* per request: the name TemporaryDirectory() returned
    playlist,   \* per request: the playlist text of line 51
    segments,   \* per request: download_m3u8's segments list
    seg_files,  \* per request: download_m3u8's seg_files list
    idx,        \* per request: the loop index of line 62
    dest,       \* per request: the file download_file is writing
    body,       \* per request: the chunks the open response still delivers
    fs,         \* the disk: directory name -> [owner, files]
    calls,      \* per request: the chat-platform calls made, in order
    fetchLog,   \* per request: the urls session.get was called with
    mergeLog,   \* per request: the segment lists merge_segments_ffmpeg got
    gate,       \* per request: the outcome of the size check of line 139
    raised,     \* per request: the exceptions raised inside the try block
    outcome     \* per request: how handle_message ended

vars == <<pc, draft, text, url, workdir, playlist, segments, seg_files, idx, dest, body, fs,
          calls, fetchLog, mergeLog, gate, raised, outcome>>

(***************************************************************************)
(* Bounds of the model.                                                    *)
(***************************************************************************)
\* the longest message the classifier is run on, in words
MaxWords == 5
\* the most lines a playlist document has
MaxLines == 3
\* the most chunks one response body is delivered in
MaxChunks == 2

Reqs == {1, 2}

None == <<>>
NoDir == "nodir"

(***************************************************************************)
(* String helpers.                                                         *)
(***************************************************************************)
Max(S) == CHOOSE x \in S : \A y \in S : y <= x
Min(S) == CHOOSE x \in S : \A y \in S : x <= y

IsSpace(t) == t \in {" ", "\n"}

\* str.endswith(suffix) for a one-token suffix
EndsWith(s, tok) == Len(s) >= 1 /\ s[Len(s)] = tok

\* str.startswith(prefix) for a one-token prefix
StartsWith(s, tok) == Len(s) >= 1 /\ s[1] = tok

\* the last index e >= k - 1 such that s[k..e] holds no whitespace
RunEnd(s, k) ==
    Max({k - 1} \cup {e \in k..Len(s) : \A j \in k..e : ~IsSpace(s[j])})

\* the length of a match of https?:// at i, 0 when there is none
SchemeLen(s, i) ==
    LET at(j, tok) == j <= Len(s) /\ s[j] = tok
    IN  IF at(i, "http") /\ at(i + 1, "s") /\ at(i + 2, ":")
           /\ at(i + 3, "/") /\ at(i + 4, "/") THEN 5
        ELSE IF at(i, "http") /\ at(i + 1, ":")
           /\ at(i + 2, "/") /\ at(i + 3, "/") THEN 4
        ELSE 0

VideoExts == {".mp4", ".mov", ".webm", ".mkv", ".avi", ".flv", ".ts"}

\* The end of the match of M3U8_REGEX anchored at i (0: no match at i):
\* the scheme, a greedy non-empty run of non-whitespace, then ".m3u8".
M3U8_END(s, i) ==
    LET b == i + SchemeLen(s, i)
        cands == {j \in (b + 1)..RunEnd(s, b) : s[j] = ".m3u8"}
    IN  IF SchemeLen(s, i) = 0 \/ cands = {} THEN 0 ELSE Max(cands)

\* The end of the match of VIDEO_REGEX anchored at i (0: no match at i): the
\* scheme, a greedy non-empty run of non-whitespace, a video suffix, and
\* then, when a "?" follows, the rest of the run.
VIDEO_END(s, i) ==
    LET b == i + SchemeLen(s, i)
        cands == {j \in (b + 1)..RunEnd(s, b) : s[j] \in VideoExts}
        j == Max(cands)
    IN  IF SchemeLen(s, i) = 0 \/ cands = {} THEN 0
        ELSE IF j < Len(s) /\ s[j + 1] = "?" THEN RunEnd(s, b) ELSE j

\* M3U8_REGEX.search(s) (lines 20, 108): the leftmost match, None without one
M3U8_REGEX(s) ==
    LET starts == {i \in 1..Len(s) : M3U8_END(s, i) > 0}
    IN  IF starts = {} THEN None
        ELSE SubSeq(s, Min(starts), M3U8_END(s, Min(starts)))

\* VIDEO_REGEX.search(s) (lines 21, 109)
VIDEO_REGEX(s) ==
    LET starts == {i \in 1..Len(s) : VIDEO_END(s, i) > 0}
    IN  IF starts = {} THEN None
        ELSE SubSeq(s, Min(starts), VIDEO_END(s, Min(starts)))

\* a faulty classifier: the direct-media match is preferred
SelectUrlVideoFirst(t) ==
    IF VIDEO_REGEX(t) # None THEN VIDEO_REGEX(t)
    ELSE IF M3U8_REGEX(t) # None THEN M3U8_REGEX(t) ELSE None

\* lines 107-110: the url handle_message works on
SelectUrl(t) ==
    IF M3U8_REGEX(t) # None THEN M3U8_REGEX(t)
    ELSE IF VIDEO_REGEX(t) # None THEN VIDEO_REGEX(t) ELSE None


\* a faulty handler: the early return of line 112 is missing
IsIgnoredNever(u) == FALSE

\* line 111: `if not url: return`
IsIgnored(u) == u = None

\* a faulty handler: the branch of line 119 is always taken
IsPlaylistAny(u) == TRUE

\* line 119: url.endswith('.m3u8')
IsPlaylist(u) == EndsWith(u, ".m3u8")

(***************************************************************************)
(* Byte counts.  Python integers are unbounded; a count is kept as         *)
(* [hi, lo], standing for hi * Base + lo with 0 <= lo < Base.              *)
(***************************************************************************)
Base == 1024 * 1024
Norm(h, l) == [hi |-> h + (l \div Base), lo |-> l % Base]
FromInt(n) == Norm(0, n)
Plus(a, b) == Norm(a.hi + b.hi, a.lo + b.lo)
Times(a, k) == Norm(a.hi * k, a.lo * k)
Greater(a, b) == a.hi > b.hi \/ (a.hi = b.hi /\ a.lo > b.lo)
Pred(a) == IF a.lo > 0 THEN [a EXCEPT !.lo = @ - 1]
           ELSE [hi |-> a.hi - 1, lo |-> Base - 1]

\* line 17
TG_MAX_SIZE == Times(Times(Times(FromInt(2), 1024), 1024), 1024)

\* line 40: iter_chunked(1024 * 256); the model's chunks are all full ones
ChunkBytes == FromInt(1024 * 256)

\* a faulty gate: an artifact of exactly the limit is turned away
GateRejectsAtLimit(size) == ~Greater(TG_MAX_SIZE, size)

\* line 139: size > TG_MAX_SIZE
GateRejects(size) == Greater(size, TG_MAX_SIZE)

(***************************************************************************)
(* Playlists (lines 53-58).                                                *)
(***************************************************************************)
RECURSIVE SplitLines(_)
\* str.splitlines()
SplitLines(s) ==
    IF s = <<>> THEN <<>>
    ELSE LET nl == {i \in 1..Len(s) : s[i] = "\n"}
         IN  IF nl = {} THEN <<s>>
             ELSE <<SubSeq(s, 1, Min(nl) - 1)>>
                  \o SplitLines(SubSeq(s, Min(nl) + 1, Len(s)))

\* line 53: m3u8_url.rsplit('/', 1)[0]
BaseUrl(u) ==
    LET sl == {i \in 1..Len(u) : u[i] = "/"}
    IN  IF sl = {} THEN u ELSE SubSeq(u, 1, Max(sl) - 1)

\* line 56: `if line and not line.startswith('#')`
IsSegmentLine(line) == line # <<>> /\ ~StartsWith(line, "#")

\* line 57
SegUrl(line, base) ==
    IF StartsWith(line, "http") THEN line ELSE base \o <<"/">> \o line

RECURSIVE SegmentsOfReversed(_, _)
\* a faulty parser: segments.insert(0, seg_url)
SegmentsOfReversed(lines, base) ==
    IF lines = <<>> THEN <<>>
    ELSE SegmentsOfReversed(Tail(lines), base)
         \o (IF IsSegmentLine(Head(lines))
             THEN <<SegUrl(Head(lines), base)>> ELSE <<>>)

RECURSIVE SegmentsOf(_, _)
\* lines 54-58, over the lines of the playlist
SegmentsOf(lines, base) ==
    IF lines = <<>> THEN <<>>
    ELSE (IF IsSegmentLine(Head(lines))
          THEN <<SegUrl(Head(lines), base)>> ELSE <<>>)
         \o SegmentsOf(Tail(lines), base)

\* lines 53-58
ParseSegments(doc, u) == SegmentsOf(SplitLines(doc), BaseUrl(u))

(***************************************************************************)
(* File names (lines 63, 72, 127, 132).                                    *)
(***************************************************************************)
DigitTok == <<"0", "1", "2", "3", "4", "5", "6", "7", "8", "9">>

RECURSIVE Digits(_)
Digits(n) == IF n < 10 THEN <<DigitTok[n + 1]>>
             ELSE Digits(n \div 10) \o <<DigitTok[(n % 10) + 1]>>

RECURSIVE ZeroPad(_, _)
\* format(n, "0<w>d")
ZeroPad(d, w) == IF Len(d) >= w THEN d ELSE ZeroPad(<<"0">> \o d, w)

\* a faulty name: f"seg_{idx}.ts"
SegNameUnpadded(i) == <<"seg_">> \o Digits(i) \o <<".ts">>

\* line 63: f"seg_{idx:05d}.ts"
SegName(i) == <<"seg_">> \o ZeroPad(Digits(i), 5) \o <<".ts">>

\* os.path.join(workdir, name)
Join(d, name) == [dir |-> d, name |-> name]

\* lines 127 and 132
OutputName == <<"output", ".mp4">>

\* lines 73-75: one line "file '<path>'" per segment file, in list order
Manifest(files) == [i \in 1..Len(files) |-> files[i]]

\* line 72: output_path + ".txt"
ListPath(p) == [p EXCEPT !.name = @ \o <<".txt">>]


(***************************************************************************)
(* The disk.                                                               *)
(***************************************************************************)
NoPath == Join(NoDir, <<>>)

\* no response is open
NoBody == [left |-> 0, got |-> 0, clen |-> 0]

Exists(f, p) == p.dir \in DOMAIN f /\ p.name \in DOMAIN f[p.dir].files

\* a file: who wrote it, from which url or list, how many chunks of the len
\* chunks of its response body are written, and its size
FileRec(r, kind, src, list, size) ==
    [by |-> r, kind |-> kind, src |-> src, list |-> list, got |-> 0,
     len |-> 0, size |-> size]

\* os.path.getsize(p)
Size(f, p) == f[p.dir].files[p.name].size

\* os.mkdir; a directory that is already there is left as it is
MkDir(f, d, r) ==
    IF d \in DOMAIN f THEN f
    ELSE (d :> [owner |-> r, files |-> <<>>]) @@ f

\* open(p, 'w').write(...): the file is created or replaced
WriteFile(f, p, rec) ==
    [f EXCEPT ![p.dir].files = (p.name :> rec) @@ @]

\* lines 41-42: f.write(chunk) on the open file
AppendChunk(f, p) ==
    IF Exists(f, p)
    THEN [f EXCEPT ![p.dir].files[p.name] =
              [@ EXCEPT !.got = @ + 1, !.size = Plus(@, ChunkBytes)]]
    ELSE f

\* os.remove(p)
RemoveFile(f, p) ==
    IF Exists(f, p)
    THEN [f EXCEPT ![p.dir].files =
              [n \in (DOMAIN @) \ {p.name} |-> @[n]]]
    ELSE f

\* shutil.rmtree(d)
RmTree(f, d) == [x \in (DOMAIN f) \ {d} |-> f[x]]

\* a faulty scratch directory: one fixed directory, made if it is missing
MkdtempFixed(f, names) == {"tmpA"}

\* tempfile.mkdtemp (line 117): a name no directory on the disk has
Mkdtemp(f, names) == {d \in names : d \notin DOMAIN f}

\* a faulty cleanup: only the files the handler knows of are deleted
ExitWithKnownFiles(f, r) ==
    IF workdir[r] \notin DOMAIN f THEN f
    ELSE LET known == {seg_files[r][i].name : i \in 1..Len(seg_files[r])}
                      \cup {OutputName}
             left == (DOMAIN f[workdir[r]].files) \ known
         IN  IF left = {} THEN RmTree(f, workdir[r])
             ELSE [f EXCEPT ![workdir[r]].files = [n \in left |-> @[n]]]

\* line 117: TemporaryDirectory.__exit__ removes the directory and all in it
ExitWith(f, r) == RmTree(f, workdir[r])

(***************************************************************************)
(* What the environment may hand the handler.                              *)
(***************************************************************************)
PlaylistUrl ==
    <<"http", ":", "/", "/", "h", "/", "p", "/", "list", ".m3u8">>
DirectUrl ==
    <<"http", "s", ":", "/", "/", "cdn", "/", "x", "/", "video", ".mp4">>

Messages ==
    { None,
      <<"hello">>,
      PlaylistUrl,
      DirectUrl }

LineSet ==
    { <<>>,
      <<"#", "EXTM3U">>,
      <<"seg0", ".ts">>,
      <<"http", ":", "/", "/", "other", "/", "seg1", ".ts">> }

RECURSIVE JoinLines(_)
JoinLines(ls) ==
    IF ls = <<>> THEN <<>>
    ELSE IF Len(ls) = 1 THEN ls[1]
    ELSE ls[1] \o <<"\n">> \o JoinLines(Tail(ls))

Docs == {JoinLines(ls) : ls \in UNION {[1..k -> LineSet] : k \in 0..MaxLines}}

\* the sizes ffmpeg's output may have
ArtifactSizes ==
    {FromInt(0), Pred(TG_MAX_SIZE), TG_MAX_SIZE, Plus(TG_MAX_SIZE, FromInt(1))}

\* the bodies a response may have: n chunks, and the Content-Length header
\* (line 37), in chunks, 0 when it is absent
Bodies ==
    {b \in [n : 0..MaxChunks, clen : 0..MaxChunks] : b.clen \in {0, b.n}}

Env == [msgs |-> Messages, dirs |-> {"tmpA"}, docs |-> Docs,
        bodies |-> Bodies, sizes |-> ArtifactSizes]

(***************************************************************************)
(* handle_message (lines 105-146).                                         *)
(***************************************************************************)
\* the awaits inside `with tempfile.TemporaryDirectory()`
PlatformPcs ==
    {"edit_start", "edit_file_progress", "edit_seg_progress", "edit_merging",
     "edit_warning", "edit_uploading", "reply_video", "delete"}
FetchPcs == {"get_playlist", "read_playlist", "get_file", "read_chunk"}
WithPcs == PlatformPcs \cup FetchPcs \cup {"spawn", "communicate"}

Call(op, msg, d, t) == [op |-> op, msg |-> msg, done |-> d, total |-> t]

Say(r, c) == calls' = [calls EXCEPT ![r] = Append(@, c)]

Goto(r, l) == pc' = [pc EXCEPT ![r] = l]

Fetch(r, u) == fetchLog' = [fetchLog EXCEPT ![r] = Append(@, u)]

\* a faulty handler: `except aiohttp.ClientError`
IsClientError(e) == e = "ClientError"

\* a faulty handler: `except BaseException`
IsBaseException(e) == TRUE

\* line 145: `except Exception` (CancelledError is a BaseException)
IsException(e) == e # "CancelledError"

\* An exception e leaves the with block (the disk is fNow): the scratch
\* directory is removed, and line 146 reports e when line 145 catches it.
Throw(r, e, fNow) ==
    /\ raised' = [raised EXCEPT ![r] = Append(@, e)]
    /\ fs' = ExitWith(fNow, r)
    /\ IF IsException(e)
       THEN /\ Goto(r, "edit_error")
            /\ Say(r, Call("edit", "error", 0, 0))
            /\ outcome' = outcome
       ELSE /\ Goto(r, "done")
            /\ calls' = calls
            /\ outcome' = [outcome EXCEPT ![r] = e]

\* a faulty handler: tempfile.mkdtemp in place of TemporaryDirectory, with
\* the directory removed only when an exception is handled
ReturnNoCleanup(r, fNow) ==
    /\ fs' = fNow
    /\ Goto(r, "done")
    /\ outcome' = [outcome EXCEPT ![r] = "returned"]

\* the with block is left by a return or by running off its end
Return(r, fNow) ==
    /\ fs' = ExitWith(fNow, r)
    /\ Goto(r, "done")
    /\ outcome' = [outcome EXCEPT ![r] = "returned"]

\* lines 138-142: the size check, on the disk fNow
Gate(r, fNow) ==
    LET p == Join(workdir[r], OutputName)
    IN  IF ~Exists(fNow, p)
        THEN Throw(r, "OSError", fNow) /\ gate' = gate
        ELSE /\ fs' = fNow
             /\ UNCHANGED <<raised, outcome>>
             /\ IF GateRejects(Size(fNow, p))
                THEN /\ gate' = [gate EXCEPT ![r] = [verdict |-> "rejected",
                                                    size |-> Size(fNow, p)]]
                     /\ Say(r, Call("edit", "warning", 0, 0))
                     /\ Goto(r, "edit_warning")
                ELSE /\ gate' = [gate EXCEPT ![r] = [verdict |-> "allowed",
                                                    size |-> Size(fNow, p)]]
                     /\ Say(r, Call("edit", "uploading", 0, 0))
                     /\ Goto(r, "edit_uploading")

\* lines 107-114: a message arrives
Start(r, msgs) ==
    /\ pc[r] = "idle"
    /\ \E t \in msgs :
          /\ text' = [text EXCEPT ![r] = t]
          /\ url' = [url EXCEPT ![r] = SelectUrl(t)]
          /\ IF IsIgnored(SelectUrl(t))
             THEN /\ Goto(r, "done")
                  /\ outcome' = [outcome EXCEPT ![r] = "returned"]
                  /\ calls' = calls
             ELSE /\ Goto(r, "reply")
                  /\ Say(r, Call("reply", "processing", 0, 0))
                  /\ outcome' = outcome
    /\ UNCHANGED <<draft, workdir, playlist, segments, seg_files, idx, dest,
                   body, fs, fetchLog, mergeLog, gate, raised>>

\* line 114 raises: nothing catches it
ReplyFails(r) ==
    /\ pc[r] = "reply"
    /\ Goto(r, "done")
    /\ outcome' = [outcome EXCEPT ![r] = "RPCError at 114"]
    /\ UNCHANGED <<draft, text, url, workdir, playlist, segments, seg_files, idx,
                   dest, body, fs, calls, fetchLog, mergeLog, gate, raised>>

\* lines 114-121, 131: the scratch directory is made, the first edit is sent
ReplyOk(r, names) ==
    /\ pc[r] = "reply"
    /\ \E d \in Mkdtemp(fs, names) :
          /\ workdir' = [workdir EXCEPT ![r] = d]
          /\ fs' = MkDir(fs, d, r)
    /\ Say(r, Call("edit", IF IsPlaylist(url[r]) THEN "playlist" ELSE "video",
                   0, 0))
    /\ Goto(r, "edit_start")
    /\ UNCHANGED <<draft, text, url, playlist, segments, seg_files, idx, dest, body,
                   fetchLog, mergeLog, gate, raised, outcome>>

\* lines 125 and 49, or 132-136 and 35: the first request goes out
EditStartOk(r) ==
    /\ pc[r] = "edit_start"
    /\ Fetch(r, url[r])
    /\ IF IsPlaylist(url[r])
       THEN Goto(r, "get_playlist") /\ dest' = dest
       ELSE /\ Goto(r, "get_file")
            /\ dest' = [dest EXCEPT ![r] = Join(workdir[r], OutputName)]
    /\ UNCHANGED <<draft, text, url, workdir, playlist, segments, seg_files, idx,
                   body, fs, calls, mergeLog, gate, raised, outcome>>

\* any chat-platform call inside the try block raises
PlatformFails(r) ==
    /\ pc[r] \in PlatformPcs
    /\ Throw(r, "RPCError", fs)
    /\ UNCHANGED <<draft, text, url, workdir, playlist, segments, seg_files, idx,
                   dest, body, fetchLog, mergeLog, gate>>

\* a faulty resolver: a segment that cannot be fetched is skipped
FetchFailsSkip(r) ==
    /\ pc[r] \in FetchPcs
    /\ IF IsPlaylist(url[r]) /\ pc[r] \in {"get_file", "read_chunk"}
       THEN /\ raised' = [raised EXCEPT ![r] = Append(@, "ClientError")]
            /\ IF idx[r] + 1 < Len(segments[r])
               THEN /\ idx' = [idx EXCEPT ![r] = @ + 1]
                    /\ dest' = [dest EXCEPT
                                  ![r] = Join(workdir[r], SegName(idx[r] + 1))]
                    /\ Fetch(r, segments[r][idx[r] + 2])
                    /\ Goto(r, "get_file")
                    /\ calls' = calls
               ELSE /\ Say(r, Call("edit", "merging", 0, 0))
                    /\ Goto(r, "edit_merging")
                    /\ UNCHANGED <<idx, dest, fetchLog>>
            /\ UNCHANGED <<fs, outcome>>
       ELSE Throw(r, "ClientError", fs) /\ UNCHANGED <<idx, dest, fetchLog>>
    /\ UNCHANGED <<draft, text, url, workdir, playlist, segments, seg_files,
                   body, mergeLog, gate>>

\* a request fails: a bad status (lines 36, 50) or a broken connection
FetchFails(r) ==
    /\ pc[r] \in FetchPcs
    /\ Throw(r, "ClientError", fs)
    /\ UNCHANGED <<draft, text, url, workdir, playlist, segments, seg_files, idx,
                   dest, body, fetchLog, mergeLog, gate>>

\* lines 49-50: the playlist response arrives with a good status
GetPlaylistOk(r) ==
    /\ pc[r] = "get_playlist"
    /\ Goto(r, "read_playlist")
    /\ UNCHANGED <<draft, text, url, workdir, playlist, segments, seg_files, idx,
                   dest, body, fs, calls, fetchLog, mergeLog, gate, raised,
                   outcome>>

\* lines 51-64 (and 68, 126 for no segments): the playlist is parsed and the
\* first segment is asked for
ReadPlaylistOk(r, docs) ==
    /\ pc[r] = "read_playlist"
    /\ \E doc \in docs :
          LET segs == ParseSegments(doc, url[r])
          IN  /\ playlist' = [playlist EXCEPT ![r] = doc]
              /\ segments' = [segments EXCEPT ![r] = segs]
              /\ IF segs = <<>>
                 THEN /\ Say(r, Call("edit", "merging", 0, 0))
                      /\ Goto(r, "edit_merging")
                      /\ UNCHANGED <<dest, fetchLog>>
                 ELSE /\ dest' = [dest EXCEPT
                                    ![r] = Join(workdir[r], SegName(0))]
                      /\ Fetch(r, segs[1])
                      /\ Goto(r, "get_file")
                      /\ calls' = calls
    /\ seg_files' = [seg_files EXCEPT ![r] = <<>>]
    /\ idx' = [idx EXCEPT ![r] = 0]
    /\ UNCHANGED <<draft, text, url, workdir, body, fs, mergeLog, gate, raised,
                   outcome>>

\* the url download_file was called with
CurUrl(r) == IF IsPlaylist(url[r]) THEN segments[r][idx[r] + 1] ELSE url[r]

\* lines 35-39: the response arrives with a good status, dest is opened
GetFileOk(r, bodies) ==
    /\ pc[r] = "get_file"
    /\ IF workdir[r] \in DOMAIN fs
       THEN /\ \E b \in bodies :
                  /\ body' = [body EXCEPT
                                ![r] = [left |-> b.n, got |-> 0,
                                        clen |-> b.clen]]
                  /\ fs' = WriteFile(fs, dest[r],
                                     [FileRec(r, "download", CurUrl(r), <<>>,
                                              FromInt(0))
                                        EXCEPT !.len = b.n])
            /\ Goto(r, "read_chunk")
            /\ UNCHANGED <<calls, raised, outcome>>
       ELSE Throw(r, "OSError", fs) /\ body' = body
    /\ UNCHANGED <<draft, text, url, workdir, playlist, segments, seg_files, idx,
                   dest, fetchLog, mergeLog, gate>>

\* lines 40-44: a chunk is written; the direct download reports it
ChunkArrives(r) ==
    /\ pc[r] = "read_chunk"
    /\ body[r].left > 0
    /\ body' = [body EXCEPT ![r].left = @ - 1, ![r].got = @ + 1]
    /\ fs' = AppendChunk(fs, dest[r])
    /\ IF IsPlaylist(url[r])
       THEN UNCHANGED <<pc, calls>>
       ELSE /\ Say(r, Call("edit", "percent", body[r].got + 1, body[r].clen))
            /\ Goto(r, "edit_file_progress")
    /\ UNCHANGED <<draft, text, url, workdir, playlist, segments, seg_files, idx,
                   dest, fetchLog, mergeLog, gate, raised, outcome>>

\* line 135 returns: the next chunk is awaited
EditFileProgressOk(r) ==
    /\ pc[r] = "edit_file_progress"
    /\ Goto(r, "read_chunk")
    /\ UNCHANGED <<draft, text, url, workdir, playlist, segments, seg_files, idx,
                   dest, body, fs, calls, fetchLog, mergeLog, gate, raised,
                   outcome>>

\* a faulty resolver: line 67 reports idx in place of idx + 1
StreamEndsZeroBased(r) ==
    /\ pc[r] = "read_chunk"
    /\ body[r].left = 0
    /\ body' = [body EXCEPT ![r] = NoBody]
    /\ dest' = [dest EXCEPT ![r] = NoPath]
    /\ IF IsPlaylist(url[r])
       THEN /\ seg_files' = [seg_files EXCEPT ![r] = Append(@, dest[r])]
            /\ Say(r, Call("edit", "segments", idx[r], Len(segments[r])))
            /\ Goto(r, "edit_seg_progress")
            /\ UNCHANGED <<fs, gate, raised, outcome>>
       ELSE Gate(r, fs) /\ seg_files' = seg_files
    /\ UNCHANGED <<draft, text, url, workdir, playlist, segments, idx,
                   fetchLog, mergeLog>>

\* a faulty resolver: download_file is left before the body is all read
StreamEndsEarly(r) ==
    /\ pc[r] = "read_chunk"
    /\ body' = [body EXCEPT ![r] = NoBody]
    /\ dest' = [dest EXCEPT ![r] = NoPath]
    /\ IF IsPlaylist(url[r])
       THEN /\ seg_files' = [seg_files EXCEPT ![r] = Append(@, dest[r])]
            /\ Say(r, Call("edit", "segments", idx[r] + 1, Len(segments[r])))
            /\ Goto(r, "edit_seg_progress")
            /\ UNCHANGED <<fs, gate, raised, outcome>>
       ELSE Gate(r, fs) /\ seg_files' = seg_files
    /\ UNCHANGED <<draft, text, url, workdir, playlist, segments, idx,
                   fetchLog, mergeLog>>

\* lines 45, 65-67: the body is complete; a segment is appended and reported.
\* Lines 45, 138-142: the direct download goes to the size check.
StreamEnds(r) ==
    /\ pc[r] = "read_chunk"
    /\ body[r].left = 0
    /\ body' = [body EXCEPT ![r] = NoBody]
    /\ dest' = [dest EXCEPT ![r] = NoPath]
    /\ IF IsPlaylist(url[r])
       THEN /\ seg_files' = [seg_files EXCEPT ![r] = Append(@, dest[r])]
            /\ Say(r, Call("edit", "segments", idx[r] + 1, Len(segments[r])))
            /\ Goto(r, "edit_seg_progress")
            /\ UNCHANGED <<fs, gate, raised, outcome>>
       ELSE Gate(r, fs) /\ seg_files' = seg_files
    /\ UNCHANGED <<draft, text, url, workdir, playlist, segments, idx,
                   fetchLog, mergeLog>>

\* a faulty resolver: the loop of line 62 ends after its first round
EditSegProgressOkEarly(r) ==
    /\ pc[r] = "edit_seg_progress"
    /\ Say(r, Call("edit", "merging", 0, 0))
    /\ Goto(r, "edit_merging")
    /\ UNCHANGED <<draft, text, url, workdir, playlist, segments, seg_files, idx,
                   dest, body, fs, fetchLog, mergeLog, gate, raised, outcome>>

\* lines 62-64: the next segment is asked for; lines 68, 126 after the last
EditSegProgressOk(r) ==
    /\ pc[r] = "edit_seg_progress"
    /\ IF idx[r] + 1 < Len(segments[r])
       THEN /\ idx' = [idx EXCEPT ![r] = @ + 1]
            /\ dest' = [dest EXCEPT
                          ![r] = Join(workdir[r], SegName(idx[r] + 1))]
            /\ Fetch(r, segments[r][idx[r] + 2])
            /\ Goto(r, "get_file")
            /\ calls' = calls
       ELSE /\ Say(r, Call("edit", "merging", 0, 0))
            /\ Goto(r, "edit_merging")
            /\ UNCHANGED <<idx, dest, fetchLog>>
    /\ UNCHANGED <<draft, text, url, workdir, playlist, segments, seg_files, body,
                   fs, mergeLog, gate, raised, outcome>>

\* lines 127-128, 72-83: the manifest is written and ffmpeg is started; rc is
\* proc.returncode, -1 while ffmpeg has not exited
EditMergingOk(r) ==
    /\ pc[r] = "edit_merging"
    /\ LET out == Join(workdir[r], OutputName)
       IN  IF workdir[r] \in DOMAIN fs
           THEN /\ fs' = WriteFile(fs, ListPath(out),
                                   FileRec(r, "manifest", <<>>,
                                           Manifest(seg_files[r]),
                                           FromInt(0)))
                /\ mergeLog' = [mergeLog EXCEPT ![r] = Append(@,
                      [files |-> seg_files[r],
                       rc |-> -1,
                       manifest |-> Manifest(seg_files[r]),
                       srcs |-> [i \in 1..Len(seg_files[r]) |->
                                   IF Exists(fs, seg_files[r][i])
                                   THEN fs[seg_files[r][i].dir]
                                          .files[seg_files[r][i].name]
                                   ELSE FileRec(0, "missing", <<>>, <<>>,
                                                FromInt(0))]])]
                /\ Goto(r, "spawn")
                /\ UNCHANGED <<calls, raised, outcome>>
           ELSE Throw(r, "OSError", fs) /\ mergeLog' = mergeLog
    /\ UNCHANGED <<draft, text, url, workdir, playlist, segments, seg_files, idx,
                   dest, body, fetchLog, gate>>

\* line 81 raises: ffmpeg cannot be started
SpawnFails(r) ==
    /\ pc[r] = "spawn"
    /\ Throw(r, "OSError", fs)
    /\ UNCHANGED <<draft, text, url, workdir, playlist, segments, seg_files, idx,
                   dest, body, fetchLog, mergeLog, gate>>

\* lines 81-84: ffmpeg runs
SpawnOk(r) ==
    /\ pc[r] = "spawn"
    /\ Goto(r, "communicate")
    /\ UNCHANGED <<draft, text, url, workdir, playlist, segments, seg_files, idx,
                   dest, body, fs, calls, fetchLog, mergeLog, gate, raised,
                   outcome>>

\* lines 84-88, 138-142: ffmpeg exits with status rc, having written an
\* output of size sz or none.  What ffmpeg wrote is on the disk when
\* communicate() returns; a handler cancelled before that sees none of it.
FfmpegExits(r, sizes) ==
    /\ pc[r] = "communicate"
    /\ \E rc \in {0, 1}, wrote \in BOOLEAN, sz \in sizes \cup {FromInt(0)} :
          LET out == Join(workdir[r], OutputName)
              f1 == IF wrote /\ workdir[r] \in DOMAIN fs
                    THEN WriteFile(fs, out,
                                   FileRec(r, "merged", <<>>, <<>>, sz))
                    ELSE fs
          IN  /\ wrote \/ sz = FromInt(0)
              /\ mergeLog' = [mergeLog EXCEPT ![r][Len(mergeLog[r])].rc = rc]
              /\ IF rc # 0
                 THEN Throw(r, "Exception", f1) /\ gate' = gate
                 ELSE Gate(r, RemoveFile(f1, ListPath(out)))
    /\ UNCHANGED <<draft, text, url, workdir, playlist, segments, seg_files, idx,
                   dest, body, fetchLog>>

\* a faulty handler: the return of line 141 is missing
EditWarningOkNoReturn(r) ==
    /\ pc[r] = "edit_warning"
    /\ Say(r, Call("edit", "uploading", 0, 0))
    /\ Goto(r, "edit_uploading")
    /\ UNCHANGED <<draft, text, url, workdir, playlist, segments, seg_files, idx,
                   dest, body, fs, fetchLog, mergeLog, gate, raised, outcome>>

\* lines 140-141: the warning is out, the handler returns
EditWarningOk(r) ==
    /\ pc[r] = "edit_warning"
    /\ Return(r, fs)
    /\ UNCHANGED <<draft, text, url, workdir, playlist, segments, seg_files, idx,
                   dest, body, calls, fetchLog, mergeLog, gate, raised>>

\* lines 142-143
EditUploadingOk(r) ==
    /\ pc[r] = "edit_uploading"
    /\ Say(r, Call("reply_video", "caption", 0, 0))
    /\ Goto(r, "reply_video")
    /\ UNCHANGED <<draft, text, url, workdir, playlist, segments, seg_files, idx,
                   dest, body, fs, fetchLog, mergeLog, gate, raised, outcome>>

\* lines 143-144
ReplyVideoOk(r) ==
    /\ pc[r] = "reply_video"
    /\ Say(r, Call("delete", "status", 0, 0))
    /\ Goto(r, "delete")
    /\ UNCHANGED <<draft, text, url, workdir, playlist, segments, seg_files, idx,
                   dest, body, fs, fetchLog, mergeLog, gate, raised, outcome>>

\* line 144 returns: both with blocks are left
DeleteOk(r) ==
    /\ pc[r] = "delete"
    /\ Return(r, fs)
    /\ UNCHANGED <<draft, text, url, workdir, playlist, segments, seg_files, idx,
                   dest, body, calls, fetchLog, mergeLog, gate, raised>>

\* line 146 returns
EditErrorOk(r) ==
    /\ pc[r] = "edit_error"
    /\ Goto(r, "done")
    /\ outcome' = [outcome EXCEPT ![r] = "returned"]
    /\ UNCHANGED <<draft, text, url, workdir, playlist, segments, seg_files, idx,
                   dest, body, fs, calls, fetchLog, mergeLog, gate, raised>>

\* line 146 raises: nothing catches it
EditErrorFails(r) ==
    /\ pc[r] = "edit_error"
    /\ Goto(r, "done")
    /\ outcome' = [outcome EXCEPT ![r] = "RPCError at 146"]
    /\ UNCHANGED <<draft, text, url, workdir, playlist, segments, seg_files, idx,
                   dest, body, fs, calls, fetchLog, mergeLog, gate, raised>>

\* the handler's task is cancelled while it is suspended inside the with block
CancelInWith(r) ==
    /\ pc[r] \in WithPcs
    /\ Throw(r, "CancelledError", fs)
    /\ UNCHANGED <<draft, text, url, workdir, playlist, segments, seg_files, idx,
                   dest, body, fetchLog, mergeLog, gate>>

\* the handler's task is cancelled at line 114 or at line 146
CancelOutside(r) ==
    /\ pc[r] \in {"reply", "edit_error"}
    /\ Goto(r, "done")
    /\ outcome' = [outcome EXCEPT ![r] = "CancelledError"]
    /\ UNCHANGED <<draft, text, url, workdir, playlist, segments, seg_files, idx,
                   dest, body, fs, calls, fetchLog, mergeLog, gate, raised>>

Handler(r, env) ==
    \/ Start(r, env.msgs)
    \/ ReplyFails(r)
    \/ ReplyOk(r, env.dirs)
    \/ EditStartOk(r)
    \/ PlatformFails(r)
    \/ FetchFails(r)
    \/ GetPlaylistOk(r)
    \/ ReadPlaylistOk(r, env.docs)
    \/ GetFileOk(r, env.bodies)
    \/ ChunkArrives(r)
    \/ EditFileProgressOk(r)
    \/ StreamEnds(r)
    \/ EditSegProgressOk(r)
    \/ EditMergingOk(r)
    \/ SpawnFails(r)
    \/ SpawnOk(r)
    \/ FfmpegExits(r, env.sizes)
    \/ EditWarningOk(r)
    \/ EditUploadingOk(r)
    \/ ReplyVideoOk(r)
    \/ DeleteOk(r)
    \/ EditErrorOk(r)
    \/ EditErrorFails(r)
    \/ CancelInWith(r)
    \/ CancelOutside(r)

Init ==
    /\ pc = [r \in Reqs |-> "idle"]
    /\ draft = [r \in Reqs |-> <<>>]
    /\ text = [r \in Reqs |-> None]
    /\ url = [r \in Reqs |-> None]
    /\ workdir = [r \in Reqs |-> NoDir]
    /\ playlist = [r \in Reqs |-> <<>>]
    /\ segments = [r \in Reqs |-> <<>>]
    /\ seg_files = [r \in Reqs |-> <<>>]
    /\ idx = [r \in Reqs |-> 0]
    /\ dest = [r \in Reqs |-> NoPath]
    /\ body = [r \in Reqs |-> NoBody]
    /\ fs = <<>>
    /\ calls = [r \in Reqs |-> <<>>]
    /\ fetchLog = [r \in Reqs |-> <<>>]
    /\ mergeLog = [r \in Reqs |-> <<>>]
    /\ gate = [r \in Reqs |-> [verdict |-> "none", size |-> FromInt(0)]]
    /\ raised = [r \in Reqs |-> <<>>]
    /\ outcome = [r \in Reqs |-> "running"]

\* one request at a time
Next == \E r \in {1} : Handler(r, Env)

Spec == Init /\ [][Next]_vars


(***************************************************************************)
(* The classifier alone (lines 107-112), on every message of at most       *)
(* MaxWords words.                                                         *)
(***************************************************************************)
Words ==
    { <<"http", ":", "/", "/">>, <<"http", ":", "/", "/", "a">>, <<"a">>,
      <<".m3u8">>, <<".mp4">>, <<"?">>, <<" ">> }

RECURSIVE Flatten(_)
Flatten(ws) == IF ws = <<>> THEN <<>> ELSE Head(ws) \o Flatten(Tail(ws))

\* the sender writes one more word
Compose(r) ==
    /\ pc[r] = "idle"
    /\ Len(draft[r]) < MaxWords
    /\ \E w \in Words : draft' = [draft EXCEPT ![r] = Append(@, w)]
    /\ UNCHANGED <<pc, text, url, workdir, playlist, segments, seg_files, idx,
                   dest, body, fs, calls, fetchLog, mergeLog, gate, raised,
                   outcome>>

\* the message is sent: handle_message runs on it up to its first await
Send(r) == Start(r, {Flatten(draft[r])})

NextClassify == \E r \in {1} : Compose(r) \/ Send(r)

SpecClassify == Init /\ [][NextClassify]_vars


(***************************************************************************)
(* Two requests in flight at once, both for the same playlist.             *)
(***************************************************************************)
ConcMessages == {PlaylistUrl, DirectUrl}

ConcDocs ==
    { JoinLines(<<
        <<"seg0", ".ts">>,
        <<"http", ":", "/", "/", "other", "/", "seg1", ".ts">> >>) }

EnvConc ==
    [msgs |-> ConcMessages, dirs |-> {"tmpA", "tmpB"}, docs |-> ConcDocs,
     bodies |-> {[n |-> 1, clen |-> 1]},
     sizes |-> {TG_MAX_SIZE, Plus(TG_MAX_SIZE, FromInt(1))}]

NextConc == \E r \in Reqs : Handler(r, EnvConc)

SpecConc == Init /\ [][NextConc]_vars

(***************************************************************************)
(* One request whose playlist holds references of every shape: relative,   *)
(* with the http scheme, with another scheme, and relative with a name     *)
(* that begins with the letters "http".                                    *)
(***************************************************************************)
RefLineSet ==
    { <<"seg0", ".ts">>,
      <<"http", ":", "/", "/", "other", "/", "seg1", ".ts">>,
      <<"ftp", ":", "/", "/", "other", "/", "seg3", ".ts">>,
      <<"http", "clip", ".ts">> }

\* the playlist of four lines served at PlaylistUrl
ExampleDoc ==
    JoinLines(<<
        <<"#", "EXTM3U">>,
        <<"seg0", ".ts">>,
        <<"http", ":", "/", "/", "other", "/", "seg1", ".ts">>,
        <<"seg2", ".ts">> >>)

RefDocs ==
    {ExampleDoc}
    \cup {JoinLines(ls) :
             ls \in UNION {[1..k -> RefLineSet] : k \in 0..MaxLines}}

EnvResolve ==
    [msgs |-> ConcMessages, dirs |-> {"tmpA"}, docs |-> RefDocs,
     bodies |-> {[n |-> 1, clen |-> 1]},
     sizes |-> {TG_MAX_SIZE, Plus(TG_MAX_SIZE, FromInt(1))}]

NextResolve == \E r \in {1} : Handler(r, EnvResolve)

SpecResolve == Init /\ [][NextResolve]_vars


(***************************************************************************)
(* One request that is worked on: its message holds a url, and what ffmpeg *)
(* writes is at the size limit or one byte above it.                       *)
(***************************************************************************)
EnvPath ==
    [msgs |-> ConcMessages, dirs |-> {"tmpA"}, docs |-> Docs,
     bodies |-> Bodies,
     sizes |-> {TG_MAX_SIZE, Plus(TG_MAX_SIZE, FromInt(1))}]

NextPath == \E r \in {1} : Handler(r, EnvPath)

SpecPath == Init /\ [][NextPath]_vars

(***************************************************************************)
(* One request whose awaits all come back: every response, chunk, ffmpeg   *)
(* exit and chat-platform call arrives, with success or with failure.      *)
(***************************************************************************)
EnvLive ==
    [msgs |-> Messages, dirs |-> {"tmpA"}, docs |-> Docs,
     bodies |-> {[n |-> 0, clen |-> 0], [n |-> 1, clen |-> 1]},
     sizes |-> {TG_MAX_SIZE, Plus(TG_MAX_SIZE, FromInt(1))}]

NextLive == \E r \in {1} : Handler(r, EnvLive)

SpecLive == Init /\ [][NextLive]_vars /\ WF_vars(NextLive)

(***************************************************************************)
(* The file name of line 63 on its own: each of two requests is at some    *)
(* round idx of the loop of line 62, with indices up to and beyond the     *)
(* five digits of the padding.                                             *)
(***************************************************************************)
SegIndices ==
    {0, 1, 9, 10, 99, 100, 9999, 10000, 99998, 99999, 100000, 100001, 1000000}

\* lines 62-63: round i of the loop computes seg_path
NameSegment(r, indices) ==
    /\ \E i \in indices :
          /\ idx' = [idx EXCEPT ![r] = i]
          /\ dest' = [dest EXCEPT ![r] = Join(workdir[r], SegName(i))]
    /\ UNCHANGED <<pc, draft, text, url, workdir, playlist, segments,
                   seg_files, body, fs, calls, fetchLog, mergeLog, gate,
                   raised, outcome>>

NextNames == \E r \in Reqs : NameSegment(r, SegIndices)

SpecNames == Init /\ [][NextNames]_vars

(***************************************************************************)
(* The properties.                                                         *)
(***************************************************************************)
\* where in calls[r] the call with message msg was made
CallsOf(r, msg) == {i \in 1..Len(calls[r]) : calls[r][i].msg = msg}

\* the directories on the disk that request r made
DirsOf(r) == {d \in DOMAIN fs : fs[d].owner = r}

\* C1: once handle_message has returned or raised, the scratch directory it
\* made, and with it every file made in it, is gone; it is already gone
\* when line 146 reports an error.
C1_ScratchRemoved ==
    \A r \in Reqs :
        pc[r] \in {"done", "edit_error"} =>
            /\ DirsOf(r) = {}
            /\ \A d \in DOMAIN fs : \A n \in DOMAIN fs[d].files :
                   fs[d].files[n].by # r

\* C1's case: ffmpeg failed after segments and the manifest were written,
\* the error report failed too, and the handler has raised.
C1_Witness ==
    \E r \in Reqs :
        /\ pc[r] = "done"
        /\ workdir[r] # NoDir
        /\ Len(seg_files[r]) >= 2
        /\ Len(mergeLog[r]) = 1
        /\ raised[r] = <<"Exception">>
        /\ outcome[r] = "RPCError at 146"

\* C2: when the fetch of segment k fails, the requests made are the playlist
\* and segments 1..k and no more, the handler is on its way out through
\* line 146, and ffmpeg was not and will not be run.
C2_FailFast ==
    \A r \in Reqs :
        (/\ IsPlaylist(url[r])
         /\ Len(fetchLog[r]) >= 2
         /\ \E i \in 1..Len(raised[r]) : raised[r][i] = "ClientError")
        => LET k == Len(fetchLog[r]) - 1
           IN  /\ k <= Len(segments[r])
               /\ fetchLog[r] = <<url[r]>> \o SubSeq(segments[r], 1, k)
               /\ Len(seg_files[r]) = k - 1
               /\ mergeLog[r] = <<>>
               /\ raised[r] = <<"ClientError">>
               /\ pc[r] \in {"edit_error", "done"}

\* C2's case: the first of two segments failed and the handler is done.
C2_Witness ==
    \E r \in Reqs :
        /\ pc[r] = "done"
        /\ Len(segments[r]) = 2
        /\ Len(fetchLog[r]) = 2
        /\ raised[r] = <<"ClientError">>

\* the playlist's segment references L1..LN: its non-empty, non-comment lines
SegmentLines(doc) ==
    SelectSeq(SplitLines(doc), LAMBDA l : l # <<>> /\ l[1] # "#")

\* C3: ffmpeg is given exactly one path per segment reference, the i-th
\* path is the i-th index-named file and holds what was fetched for the
\* i-th reference, and the manifest lists the paths in that order.
C3_OrderPreserved ==
    \A r \in Reqs : \A m \in 1..Len(mergeLog[r]) :
        \A e \in {mergeLog[r][m]}, L \in {SegmentLines(playlist[r])} :
            /\ Len(e.files) = Len(L)
            /\ e.manifest = e.files
            /\ \A i \in 1..Len(L) :
                  /\ e.files[i] = Join(workdir[r], SegName(i - 1))
                  /\ e.srcs[i].kind = "download"
                  /\ e.srcs[i].by = r
                  /\ e.srcs[i].src =
                        (IF L[i][1] = "http" THEN L[i]
                         ELSE BaseUrl(url[r]) \o <<"/">> \o L[i])
            /\ \A i, j \in 1..Len(L) : i # j => e.files[i] # e.files[j]

\* C3's case: two different segments were merged, the first of which took
\* more chunks than the second.
C3_Witness ==
    \E r \in Reqs :
        /\ Len(mergeLog[r]) = 1
        /\ Len(mergeLog[r][1].files) = 2
        /\ mergeLog[r][1].srcs[1].src # mergeLog[r][1].srcs[2].src
        /\ mergeLog[r][1].srcs[1].got > mergeLog[r][1].srcs[2].got

\* C4: a playlist without segment references never gets as far as the size
\* check.
C4_EmptyPlaylistRejected ==
    \A r \in Reqs :
        (IsPlaylist(url[r]) /\ gate[r].verdict # "none")
            => segments[r] # <<>>

\* 2 * 1024^3 bytes
TwoGiB == [hi |-> 2048, lo |-> 0]

\* C5: the size check turns away exactly the sizes above 2 * 1024^3 bytes;
\* a size that is allowed goes on to the upload, one that is turned away
\* does not.
C5_GateBoundary ==
    \A r \in Reqs :
        gate[r].verdict # "none" =>
            /\ gate[r].verdict = "rejected" <=>
                  (\/ gate[r].size.hi > TwoGiB.hi
                   \/ gate[r].size.hi = TwoGiB.hi /\ gate[r].size.lo > 0)
            /\ gate[r].size = TwoGiB => gate[r].verdict = "allowed"
            /\ gate[r].size = [hi |-> 2048, lo |-> 1]
                  => gate[r].verdict = "rejected"
            /\ gate[r].verdict = "allowed"
                  => CallsOf(r, "uploading") # {} /\ CallsOf(r, "warning") = {}
            /\ gate[r].verdict = "rejected" => CallsOf(r, "caption") = {}

\* C5's case: an artifact of exactly the limit was uploaded.
C5_Witness ==
    \E r \in Reqs :
        /\ gate[r].size = TwoGiB
        /\ gate[r].verdict = "allowed"
        /\ CallsOf(r, "caption") # {}
        /\ outcome[r] = "returned"

\* C6: a rejected artifact gets the size-limit warning and is never
\* uploaded; reply_video is called only after the size check allowed it.
C6_RejectedNotUploaded ==
    \A r \in Reqs :
        /\ gate[r].verdict = "rejected" =>
              /\ Cardinality(CallsOf(r, "warning")) = 1
              /\ CallsOf(r, "caption") = {}
              /\ CallsOf(r, "uploading") = {}
        /\ CallsOf(r, "caption") # {} =>
              /\ gate[r].verdict = "allowed"
              /\ Greater(gate[r].size, TG_MAX_SIZE) = FALSE

\* C6's case: the artifact was rejected, the warning went out and the
\* handler returned.
C6_Witness ==
    \E r \in Reqs :
        /\ gate[r].verdict = "rejected"
        /\ pc[r] = "done"
        /\ outcome[r] = "returned"
        /\ raised[r] = <<>>

\* C7: a failure inside the try block is reported by exactly one error
\* edit, the last call made; it does not leave handle_message, and nothing
\* is tried again.
C7_FailureReportedOnce ==
    \A r \in Reqs :
        (raised[r] # <<>> /\ raised[r][1] # "CancelledError") =>
            /\ pc[r] \in {"edit_error", "done"}
            /\ Len(raised[r]) = 1
            /\ CallsOf(r, "error") = {Len(calls[r])}
            /\ outcome[r] \in
                  {"running", "returned", "RPCError at 146", "CancelledError"}
            /\ pc[r] = "edit_error" <=> outcome[r] = "running"

\* C7's case: ffmpeg exited with a non-zero status, the error was reported
\* and the handler returned.
C7_Witness ==
    \E r \in Reqs :
        /\ pc[r] = "done"
        /\ raised[r] = <<"Exception">>
        /\ outcome[r] = "returned"

\* the text holds a url with the playlist suffix: a scheme, something, and
\* then ".m3u8", with no whitespace in between
HasPlaylistUrl(t) ==
    \E i \in 1..Len(t) :
        /\ SchemeLen(t, i) > 0
        /\ \E j \in (i + SchemeLen(t, i) + 1)..Len(t) :
              /\ t[j] = ".m3u8"
              /\ \A k \in i..j : ~IsSpace(t[k])

\* the text holds a url with a direct-media suffix
HasMediaUrl(t) ==
    \E i \in 1..Len(t) :
        /\ SchemeLen(t, i) > 0
        /\ \E j \in (i + SchemeLen(t, i) + 1)..Len(t) :
              /\ t[j] \in VideoExts
              /\ \A k \in i..j : ~IsSpace(t[k])

\* C8: of a message holding both a playlist url and a direct-media url, the
\* url worked on is a playlist url of the message: the leftmost one, taken
\* as far as its last ".m3u8".
C8_PlaylistPreferred ==
    \A r \in Reqs :
        (pc[r] # "idle" /\ HasPlaylistUrl(text[r]) /\ HasMediaUrl(text[r]))
        => /\ IsPlaylist(url[r])
           /\ SchemeLen(url[r], 1) > 0
           /\ \A k \in 1..Len(url[r]) : ~IsSpace(url[r][k])
           /\ \E i \in 1..Len(text[r]) :
                 /\ url[r] = SubSeq(text[r], i, i + Len(url[r]) - 1)
                 /\ \A i2 \in 1..(i - 1) : \A j \in i2..Len(text[r]) :
                       ~(/\ SchemeLen(text[r], i2) > 0
                         /\ j > i2 + SchemeLen(text[r], i2)
                         /\ text[r][j] = ".m3u8"
                         /\ \A k \in i2..j : ~IsSpace(text[r][k]))
                 /\ LET e == i + Len(url[r])
                    IN  \A j \in e..Len(text[r]) :
                           ~(/\ text[r][j] = ".m3u8"
                             /\ \A k \in e..j : ~IsSpace(text[r][k]))

\* C8's case: the direct-media url comes first in the message and the
\* playlist url after it is the one worked on.
C8_Witness ==
    \E r \in Reqs :
        /\ pc[r] = "reply"
        /\ text[r] = <<"http", ":", "/", "/", "a", ".mp4", " ",
                       "http", ":", "/", "/", "a", ".m3u8">>
        /\ url[r] = <<"http", ":", "/", "/", "a", ".m3u8">>

\* C9: a message that holds neither kind of url ends the handler at once:
\* no chat-platform call, no request, no scratch directory, no merge.
C9_IgnoredSilently ==
    \A r \in Reqs :
        (pc[r] # "idle" /\ ~HasPlaylistUrl(text[r]) /\ ~HasMediaUrl(text[r]))
        => /\ pc[r] = "done"
           /\ outcome[r] = "returned"
           /\ url[r] = None
           /\ calls[r] = <<>>
           /\ fetchLog[r] = <<>>
           /\ mergeLog[r] = <<>>
           /\ workdir[r] = NoDir
           /\ DirsOf(r) = {}

\* C9's case: a message with text but no url was handled.
C9_Witness ==
    \E r \in Reqs : pc[r] = "done" /\ text[r] = <<"hello">>

\* C10: a request inside the with block has a scratch directory of its own:
\* it made it, no other request inside the with block has the same one,
\* every file in it is its own, and every segment file it has downloaded
\* is there and holds what it fetched.
C10_ScratchIsolated ==
    \A r \in Reqs :
        pc[r] \in WithPcs =>
            /\ workdir[r] \in DOMAIN fs
            /\ fs[workdir[r]].owner = r
            /\ \A q \in Reqs \ {r} :
                  pc[q] \in WithPcs => workdir[q] # workdir[r]
            /\ \A n \in DOMAIN fs[workdir[r]].files :
                  fs[workdir[r]].files[n].by = r
            /\ \A i \in 1..Len(seg_files[r]) :
                  /\ Exists(fs, seg_files[r][i])
                  /\ fs[workdir[r]].files[seg_files[r][i].name].by = r
                  /\ fs[workdir[r]].files[seg_files[r][i].name].src
                        = segments[r][i]

\* C10's case: two requests for the same playlist are inside the with block
\* at once, one merging and one still downloading, with segment files of
\* the same names on disk.
C10_Witness ==
    /\ pc[1] = "read_chunk"
    /\ pc[2] = "communicate"
    /\ url[1] = url[2]
    /\ Len(seg_files[1]) = 1
    /\ Len(seg_files[2]) = 2
    /\ seg_files[1][1].name = seg_files[2][1].name
    /\ seg_files[1][1] # seg_files[2][1]

\* the message holds a direct-media url and no playlist url
IsDirectOnly(t) == HasMediaUrl(t) /\ ~HasPlaylistUrl(t)

\* C11 as stated: for a message with only a direct-media url, the file that
\* reaches the size check came out of a merge of exactly the one fetched
\* file.
C11_MergesOneFetchedFile ==
    \A r \in Reqs :
        (IsDirectOnly(text[r]) /\ gate[r].verdict # "none")
        => /\ Len(mergeLog[r]) = 1
           /\ Len(mergeLog[r][1].files) = 1

\* C11: for a message with only a direct-media url no playlist is fetched
\* or parsed and ffmpeg is never run: the one request made is for the url
\* itself, and the file that is size-checked and uploaded is the file that
\* request was downloaded into.
C11_DirectBypassesMerge ==
    \A r \in Reqs :
        (pc[r] # "idle" /\ IsDirectOnly(text[r]))
        => /\ pc[r] \notin {"get_playlist", "read_playlist",
                            "edit_seg_progress", "edit_merging", "spawn",
                            "communicate"}
           /\ playlist[r] = <<>> /\ segments[r] = <<>> /\ seg_files[r] = <<>>
           /\ fetchLog[r] \in {<<>>, <<url[r]>>}
           /\ url[r] = VIDEO_REGEX(text[r])
           /\ mergeLog[r] = <<>>
           /\ CallsOf(r, "playlist") = {} /\ CallsOf(r, "merging") = {}
           /\ (gate[r].verdict # "none" /\ pc[r] \in WithPcs)
              => LET p == Join(workdir[r], OutputName)
                 IN  /\ Exists(fs, p)
                     /\ DOMAIN fs[workdir[r]].files = {OutputName}
                     /\ fs[workdir[r]].files[OutputName].kind = "download"
                     /\ fs[workdir[r]].files[OutputName].src = url[r]
                     /\ Size(fs, p) = gate[r].size
                     /\ Size(fs, p) =
                           Times(ChunkBytes,
                                 fs[workdir[r]].files[OutputName].got)

\* C11's case: a direct-media url was downloaded in two chunks and uploaded.
C11_Witness ==
    \E r \in Reqs :
        /\ text[r] = DirectUrl
        /\ pc[r] = "delete"
        /\ Exists(fs, Join(workdir[r], OutputName))
        /\ fs[workdir[r]].files[OutputName].got = 2
        /\ gate[r].verdict = "allowed"

\* C12: a progress edit that fails does not end the pipeline: no error
\* report is the outcome of a failed "Downloading segments" or "Downloading"
\* percent edit.
C12_ProgressNeverAborts ==
    \A r \in Reqs :
        ~(/\ raised[r] = <<"RPCError">>
          /\ \E i \in CallsOf(r, "error") :
                /\ i > 1
                /\ calls[r][i - 1].msg \in {"segments", "percent"})

\* the progress edits of segments 1..n of N
SegCalls(n, N) == [k \in 1..n |-> Call("edit", "segments", k, N)]

\* the platform calls of a playlist request that runs to its end, in order
PlaylistCalls(r) ==
    <<Call("reply", "processing", 0, 0), Call("edit", "playlist", 0, 0)>>
    \o SegCalls(Len(segments[r]), Len(segments[r]))
    \o <<Call("edit", "merging", 0, 0)>>
    \o (IF gate[r].verdict = "rejected"
        THEN <<Call("edit", "warning", 0, 0)>>
        ELSE <<Call("edit", "uploading", 0, 0),
               Call("reply_video", "caption", 0, 0),
               Call("delete", "status", 0, 0)>>)

\* calls[r] without the error report at its end
CallsBeforeError(r) ==
    IF calls[r] # <<>> /\ calls[r][Len(calls[r])].msg = "error"
    THEN SubSeq(calls[r], 1, Len(calls[r]) - 1)
    ELSE calls[r]

\* C13: on the playlist path the steps of a request come in one order and
\* once each: the playlist, the segments, then ffmpeg only when every
\* segment was fetched, the size check only when ffmpeg exited with 0, the
\* upload only when the size check allowed it; after an exception nothing
\* but the error report follows.
C13_PhaseOrder ==
    \A r \in Reqs :
        (pc[r] # "idle" /\ IsPlaylist(url[r])) =>
            \A N \in {Len(segments[r])}, done \in {CallsBeforeError(r)},
               all \in {PlaylistCalls(r)} :
                /\ Len(done) <= Len(all)
                /\ done = SubSeq(all, 1, Len(done))
                /\ mergeLog[r] # <<>> =>
                      /\ Len(mergeLog[r]) = 1
                      /\ Len(mergeLog[r][1].files) = N
                      /\ fetchLog[r] = <<url[r]>> \o segments[r]
                      /\ \A i \in 1..Len(raised[r]) :
                            raised[r][i] # "ClientError"
                      /\ mergeLog[r][1].rc = -1 =>
                            gate[r].verdict = "none"
                      /\ mergeLog[r][1].rc = 1 =>
                            raised[r] = <<"Exception">>
                /\ gate[r].verdict # "none" =>
                      /\ mergeLog[r] # <<>>
                      /\ mergeLog[r][1].rc = 0
                /\ CallsOf(r, "caption") # {} => gate[r].verdict = "allowed"
                /\ raised[r] # <<>> =>
                      /\ pc[r] \in {"edit_error", "done"}
                      /\ Len(raised[r]) = 1

\* C13's case: a playlist of two segments went through every phase and the
\* video was uploaded.
C13_Witness ==
    \E r \in Reqs :
        /\ text[r] = PlaylistUrl
        /\ Len(segments[r]) = 2
        /\ mergeLog[r] # <<>>
        /\ mergeLog[r][1].rc = 0
        /\ gate[r].verdict = "allowed"
        /\ pc[r] = "delete"

\* C14: of the segment requests a playlist request has made, all but at
\* most the last are complete, each complete one has its whole body in its
\* own file, and the one that is not is the only download under way.
C14_SegmentsSequential ==
    \A r \in Reqs :
        (IsPlaylist(url[r]) /\ fetchLog[r] # <<>>) =>
            LET started == Len(fetchLog[r]) - 1
                completed == Len(seg_files[r])
            IN  /\ started - completed \in {0, 1}
                /\ started > completed =>
                      pc[r] \in {"get_file", "read_chunk", "edit_error",
                                 "done"}
                /\ pc[r] \in {"get_file", "read_chunk"} =>
                      /\ started = completed + 1
                      /\ idx[r] = completed
                      /\ dest[r] = Join(workdir[r], SegName(completed))
                /\ pc[r] \in WithPcs =>
                      /\ \A i \in 1..completed :
                            /\ Exists(fs, seg_files[r][i])
                            /\ fs[workdir[r]].files[seg_files[r][i].name].got
                                 = fs[workdir[r]].files[seg_files[r][i].name]
                                      .len
                            /\ fs[workdir[r]].files[seg_files[r][i].name].src
                                 = fetchLog[r][i + 1]
                      /\ {n \in DOMAIN fs[workdir[r]].files :
                             fs[workdir[r]].files[n].kind = "download"}
                         = {seg_files[r][i].name : i \in 1..completed}
                           \cup (IF pc[r] = "read_chunk"
                                 THEN {dest[r].name} ELSE {})

\* C14's case: the second segment is half written while the first is
\* complete on disk.
C14_Witness ==
    \E r \in Reqs :
        /\ IsPlaylist(url[r])
        /\ pc[r] = "read_chunk"
        /\ Len(seg_files[r]) = 1
        /\ body[r].got = 1 /\ body[r].left = 1
        /\ fs[workdir[r]].files[seg_files[r][1].name].got = 2

\* the progress events of request r that went out with message msg, in order
ProgressOf(r, msg) == SelectSeq(calls[r], LAMBDA c : c.msg = msg)

\* C15: the done values of the progress events of a download never go down;
\* on the playlist path the events are (1, N), (2, N), ... one for each
\* segment file completed, none with done above total, and once all
\* segments are fetched the last one is (N, N).
C15_ProgressMonotone ==
    \A r \in Reqs :
        \A segs \in {ProgressOf(r, "segments")},
           pcts \in {ProgressOf(r, "percent")}, N \in {Len(segments[r])} :
            /\ \A i, j \in 1..Len(segs) :
                  i < j => segs[i].done <= segs[j].done
            /\ \A i, j \in 1..Len(pcts) :
                  i < j => pcts[i].done <= pcts[j].done
            /\ IsPlaylist(url[r]) =>
                  /\ pcts = <<>>
                  /\ Len(segs) = Len(seg_files[r])
                  /\ Len(segs) <= N
                  /\ segs = SegCalls(Len(segs), N)
                  /\ \A i \in 1..Len(segs) : segs[i].done <= segs[i].total
                  /\ mergeLog[r] # <<>> =>
                        /\ Len(segs) = N
                        /\ N > 0 => segs[N] = Call("edit", "segments", N, N)
            /\ ~IsPlaylist(url[r]) =>
                  /\ segs = <<>>
                  /\ \A i \in 1..Len(pcts) : pcts[i].done = i

\* C15's case: both segments of a playlist were fetched and reported, and
\* ffmpeg was started.
C15_Witness ==
    \E r \in Reqs :
        /\ IsPlaylist(url[r])
        /\ Len(segments[r]) = 2
        /\ mergeLog[r] # <<>>
        /\ ProgressOf(r, "segments")
              = <<Call("edit", "segments", 1, 2), Call("edit", "segments", 2, 2)>>

\* the tokens a url scheme is written with
SchemeToks == {"http", "s", "ftp"}

\* the reference begins with a url scheme: letters, then ":"
HasScheme(l) ==
    \E k \in 2..Len(l) :
        /\ l[k] = ":"
        /\ \A j \in 1..(k - 1) : l[j] \in SchemeToks

\* u with everything from its last "/" on removed
UpToLastSlash(u) ==
    LET sl == {i \in 1..Len(u) : u[i] = "/"}
    IN  SubSeq(u, 1, Max(sl) - 1)

\* C16: the i-th request after the playlist is for the i-th segment
\* reference itself when that has a scheme, and otherwise for the playlist
\* url up to its last "/", then "/", then the reference, which is never the
\* reference itself; the playlist http://h/p/list.m3u8 of lines #EXTM3U,
\* seg0.ts, http://other/seg1.ts, seg2.ts is fetched as http://h/p/seg0.ts,
\* http://other/seg1.ts, http://h/p/seg2.ts.
C16_ReferenceResolution ==
    \A r \in Reqs :
        (IsPlaylist(url[r]) /\ Len(fetchLog[r]) >= 2) =>
            LET L == SegmentLines(playlist[r])
            IN  /\ \A i \in 2..Len(fetchLog[r]) :
                      /\ HasScheme(L[i - 1]) => fetchLog[r][i] = L[i - 1]
                      /\ ~HasScheme(L[i - 1]) =>
                            /\ fetchLog[r][i] =
                                  UpToLastSlash(url[r]) \o <<"/">> \o L[i - 1]
                            /\ fetchLog[r][i] # L[i - 1]
                /\ playlist[r] = ExampleDoc =>
                      fetchLog[r] =
                          SubSeq(<<PlaylistUrl,
                                   <<"http", ":", "/", "/", "h", "/", "p", "/",
                                     "seg0", ".ts">>,
                                   <<"http", ":", "/", "/", "other", "/",
                                     "seg1", ".ts">>,
                                   <<"http", ":", "/", "/", "h", "/", "p", "/",
                                     "seg2", ".ts">> >>,
                                 1, Len(fetchLog[r]))

\* where a token's first character stands in the character order: "." is
\* below the digits, the digits are below the letters
CharRank(tok) ==
    IF tok = ".ts" THEN 46
    ELSE IF tok = "seg_" THEN 115
    ELSE 48 + CHOOSE d \in 0..9 : DigitTok[d + 1] = tok

RECURSIVE LexLess(_, _)
\* a < b as Python compares strings; no token is a prefix of another
LexLess(a, b) ==
    IF a = <<>> THEN b # <<>>
    ELSE IF b = <<>> THEN FALSE
    ELSE IF Head(a) = Head(b) THEN LexLess(Tail(a), Tail(b))
    ELSE CharRank(Head(a)) < CharRank(Head(b))

\* C17 as stated: the names of any two indices differ and sort as the
\* indices do, whatever the indices.
C17_LexicalOrderAllN ==
    \A r, q \in Reqs :
        (dest[r] # NoPath /\ dest[q] # NoPath /\ idx[r] < idx[q])
        => /\ dest[r].name # dest[q].name
           /\ LexLess(dest[r].name, dest[q].name)

\* C17: the names of any two indices differ; they sort as the indices do
\* when both indices are below 100000, the first index that does not fit
\* into five digits.
C17_LexicalOrderWithinWidth ==
    \A r, q \in Reqs :
        (dest[r] # NoPath /\ dest[q] # NoPath /\ idx[r] < idx[q])
        => /\ dest[r].name # dest[q].name
           /\ idx[q] < 100000 =>
                 /\ LexLess(dest[r].name, dest[q].name)
                 /\ ~LexLess(dest[q].name, dest[r].name)
                 /\ Len(dest[r].name) = 7 /\ Len(dest[q].name) = 7

\* C17's case: the names of indices 9999 and 10000, which differ in their
\* number of digits, have been computed.
C17_Witness ==
    /\ dest[1] # NoPath /\ dest[2] # NoPath
    /\ idx[1] = 9999 /\ idx[2] = 10000
    /\ dest[1].name = <<"seg_", "0", "9", "9", "9", "9", ".ts">>
    /\ dest[2].name = <<"seg_", "1", "0", "0", "0", "0", ".ts">>

\* C18 as stated: once reply_video has returned, no error report is sent.
C18_NoErrorAfterUpload ==
    \A r \in Reqs :
        CallsOf(r, "status") # {} => CallsOf(r, "error") = {}

\* C18: once reply_video has returned, the one call that follows is the
\* deletion of the status message, and an error report is sent exactly when
\* that deletion raises an exception: then one report, as the next call.
C18_ErrorAfterUploadOnlyFromDelete ==
    \A r \in Reqs :
        CallsOf(r, "status") # {} =>
            /\ Cardinality(CallsOf(r, "caption")) = 1
            /\ Cardinality(CallsOf(r, "status")) = 1
            /\ \A i \in CallsOf(r, "status") :
                  /\ i > 1 /\ calls[r][i - 1].msg = "caption"
                  /\ CallsOf(r, "error") \subseteq {i + 1}
                  /\ Len(calls[r]) <= i + 1
            /\ raised[r] \in {<<>>, <<"RPCError">>, <<"CancelledError">>}
            /\ CallsOf(r, "error") # {} <=> raised[r] = <<"RPCError">>
            /\ (pc[r] = "done" /\ raised[r] = <<>>) =>
                  outcome[r] = "returned"

\* C18's case: the video was uploaded, deleting the status message failed,
\* and the error report went out.
C18_Witness ==
    \E r \in Reqs :
        /\ pc[r] = "done"
        /\ outcome[r] = "returned"
        /\ raised[r] = <<"RPCError">>
        /\ Len(calls[r]) >= 3
        /\ calls[r][Len(calls[r]) - 2].msg = "caption"
        /\ calls[r][Len(calls[r]) - 1].msg = "status"
        /\ calls[r][Len(calls[r])].msg = "error"

\* C19: when every await comes back, a request that got past line 112 ends,
\* with no scratch directory of its own left; it never has a second
\* scratch directory, and one that is gone does not come back.
C19_EventuallyDone ==
    /\ \A r \in Reqs :
          (pc[r] = "reply") ~> (pc[r] = "done" /\ DirsOf(r) = {})
    /\ [][\A r \in Reqs :
             /\ workdir[r] # NoDir => workdir'[r] = workdir[r]
             /\ (workdir[r] # NoDir /\ workdir[r] \notin DOMAIN fs)
                   => workdir[r] \notin DOMAIN fs'
             /\ pc[r] = "done" => pc'[r] = "done"]_vars

\* C19's case: a playlist request of two segments ran to its end, the video
\* was uploaded, and the scratch directory it had is gone.
C19_Witness ==
    \E r \in Reqs :
        /\ pc[r] = "done"
        /\ outcome[r] = "returned"
        /\ Len(seg_files[r]) = 2
        /\ CallsOf(r, "caption") # {}
        /\ workdir[r] # NoDir
        /\ workdir[r] \notin DOMAIN fs

====
